---- MODULE Spec2Model ----
(***************************************************************************)
(* The scroll-triggered reveal animation of the landing page:              *)
(* useScrollAnimation (src/App.tsx 233-333), the components that use it    *)
(* (ScrollAnimatedView, StaggeredScrollAnimation) and App.handleScroll.    *)
(*                                                                         *)
(* One record per reveal target holds the hook's React state (isVisible,   *)
(* layoutY), the closure captured by the effect that is currently          *)
(* installed (cVisible, cLayoutY: the values of isVisible and layoutY in   *)
(* the render that created the effect), the registration that effect made  *)
(* (observer, timer or scroll listener) and the Animated.timing animation  *)
(* running on animValue.                                                   *)
(*                                                                         *)
(* Time is counted in milliseconds.  The page has one clock: a step of it  *)
(* moves every timeout and animation of the hooks and the autoplay         *)
(* interval and the two timings of App.  A timeout or interval that comes  *)
(* due inside a step runs when it is due, with the render it causes, and   *)
(* the rest of the step passes after it; one that comes due at the end of  *)
(* a step is left due and runs as a step of its own.  A state update       *)
(* (setIsVisible, setLayoutY) takes effect in the closures only at the     *)
(* next Rerender of the target; callbacks delivered before that run with   *)
(* the old closure.  The update the interval callback makes is queued and  *)
(* rendered in a later task; a press renders at its end, the queue first.  *)
(* The clock does not advance while a render is pending.  An unmount is    *)
(* two steps: the commit, which detaches the view, and the cleanups of the *)
(* effects, which React runs together in a later task; callbacks delivered *)
(* between the two find the registrations still armed.                     *)
(***************************************************************************)
EXTENDS Integers, Sequences, FiniteSets, TLC

\* ------------------------------------------------------------------ bounds
Targets == {1, 2}
\* clock resolution in ms
TickMs == 20
\* clock resolution of the two-child group, in ms
GroupTickMs == 80
\* clock resolution of the portfolio grid, in ms
PortfolioTickMs == 200
\* the longest list of entries one IntersectionObserver callback receives
MaxEntries == 2
\* starts counts the Animated.timing starts of a target up to this number
MaxStarts == 2
\* disposeCalls counts the runs of the effect cleanup for the unmounted
\* children of one slot up to this number
MaxDisposeCalls == 2
\* listeners and timers count the live registrations of a target up to this
MaxRegs == 2
\* animValue 1.0 in fixed point
PMax == 1000
\* layout positions reported by onLayout, scroll offsets reported by onScroll
Positions == {0 - 100, 500, 1000}
Offsets == {0, 200, 280}
\* the position and the offsets reported in the two-child group
GroupPositions == {1000}
GroupOffsets == {0, 280}
\* clock steps of the hero carousel in one period of the autoplay
CarouselTicks == 20
\* the time of the page, in ms, that the reveal specifications follow
HorizonMs == 160
TimingHorizonMs == 1000
GroupHorizonMs == 160
PortfolioHorizonMs == 400
\* the clock step, in ms, and the layout positions of the fairness specification
FairTickMs == 40
FairPositions == {500, 1000}
\* the longest list of items the filter predicate is checked on
MaxItems == 2
\* section positions reported by the sections' onLayout
SectionYs == {0, 900}
\* texts typed into a form field: empty, blank, non-empty
FieldValues == {"", " ", "a"}
\* Alert.alert calls recorded
MaxAlerts == 2

\* ------------------------------------------------------- program constants
\* Animated.timing duration
Duration == 800
\* setTimeout of the no-scrollY fallback
FallbackMs == 80
\* StaggeredScrollAnimation's default itemDelay
itemDelay == 100
\* Dimensions.get("window").height
screenHeight == 800
\* animationStyle: translateY outputRange [60, 0]
SlideFrom == 60
\* handleScroll: setScrolled(y > 100)
ScrolledAt == 100
\* HERO_SLIDES.length
SlideCount == 3
\* setInterval of the hero autoplay
AutoplayMs == 8000
\* clock resolution of the hero carousel, in ms
CarouselTickMs == AutoplayMs \div CarouselTicks
\* durations of the heroAnim and headerAnim timings
HeroDuration == 1200
HeaderDuration == 800

\* PORTFOLIO_ITEMS, by id and category
PORTFOLIO_ITEMS ==
    << [id |-> 1, category |-> "web"],
       [id |-> 2, category |-> "mobile"],
       [id |-> 3, category |-> "ecommerce"] >>
\* PortfolioCategory, in the order of the filter chips
PortfolioCategory == {"all", "web", "mobile", "ecommerce"}

\* SectionKey
SectionKey == {"hero", "services", "process", "work", "testimonials", "contact"}
\* centerNavItems: the section of each item and the sections of its children
centerNavItems ==
    [services |-> [section |-> "services", children |-> {"services"}],
     work     |-> [section |-> "work", children |-> {"work"}],
     process  |-> [section |-> "process", children |-> {"process", "services"}],
     about    |-> [section |-> "testimonials",
                   children |-> {"testimonials", "process", "contact"}]]
NavKeys == DOMAIN centerNavItems
\* mobileNavItems and the mobile CTA: the sections of the mobile menu
mobileNavSections == {"services", "process", "work", "testimonials", "contact"}
\* the layouts responsiveValue tells apart by the window width
Devices == {"mobile", "tablet", "desktop"}
\* the two copies of the page in the repository: src/App.tsx and the older
\* src/unnamed/part_000; they differ, among what is modelled, in scrollToSection
Files == {"App", "part_000"}
\* openDropdown === null
NoDropdown == "null"

Null == {}
Some(y) == {y}
Val(o) == CHOOSE y \in o : TRUE
Min(a, b) == IF a < b THEN a ELSE b
Max(a, b) == IF a > b THEN a ELSE b

VARIABLES
    platform,      \* Platform.OS: "web" or "native"
    hasScrollY,    \* whether the scrollY prop is supplied to the group's children
    target,        \* per target: the hook instance
    scrollOffset,  \* the value of App's scrollY Animated.Value
    scrolled,      \* App's scrolled state
    app            \* App's own state: the contact form, the Alert.alert calls,
                   \* the portfolio filter, the hero carousel, the navigation

vars == <<platform, hasScrollY, target, scrollOffset, scrolled, app>>

\* mutant: the index is counted from one
staggerDelay_OneBased(index, perItem) == (index + 1) * perItem

\* StaggeredScrollAnimation: delay={index * itemDelay}
staggerDelay(index, perItem) == index * perItem

\* delay prop of target t, the child at index t - 1, with the default itemDelay
delay(t) == staggerDelay(t - 1, itemDelay)

\* ---------------------------------------------------------- Animated.timing
\* Easing.out(Easing.cubic) at the fraction elapsed/dur is
\* 1 - (1 - elapsed/dur)^3 = cubicOut(elapsed, dur) / dur^3
cubicOut(elapsed, dur) ==
    dur * dur * dur - (dur - elapsed) * (dur - elapsed) * (dur - elapsed)

\* dur^3 / 10^6, a whole number: the durations are multiples of 100
millionth(dur) == (dur * dur * dur) \div 1000000

\* Easing.out(Easing.cubic) at elapsed/dur in millionths, rounded to the nearest
easeOut(elapsed, dur) ==
    (cubicOut(elapsed, dur) + millionth(dur) \div 2) \div millionth(dur)

\* the easing of the reveal: Easing.out(Easing.cubic) at elapsed/Duration
easeOutCubic(elapsed) == easeOut(elapsed, Duration)

\* span times the easing at elapsed/dur, rounded down: the whole millionths and
\* the rest of the fraction are multiplied apart to stay within 32 bits
easeTimes(elapsed, dur, span) ==
    LET num == cubicOut(elapsed, dur)
        unit == millionth(dur)
    IN  ((num \div unit) * span + ((num % unit) * span) \div unit) \div 1000000

\* the value a running timing animation delivers after `elapsed` ms:
\* from + easing * (1 - from), in thousandths, rounded down
timingValue(from, elapsed) ==
    IF elapsed >= Duration THEN PMax
    ELSE from + easeTimes(elapsed, Duration, PMax - from)

\* mutant: the delay option is dropped
timingStart_NoDelay(r, d) ==
    [r EXCEPT !.animPhase = "run",
              !.delayRem = 0,
              !.elapsed = 0,
              !.fromValue = r.animValue,
              !.starts = Min(r.starts + 1, MaxStarts),
              !.sinceStart = 0]

\* Animated.timing(animValue, {toValue: 1, duration: 800, delay, ...}).start()
timingStart(r, d) ==
    [r EXCEPT !.animPhase = IF d > 0 THEN "delay" ELSE "run",
              !.delayRem = d,
              !.elapsed = 0,
              !.fromValue = r.animValue,
              !.starts = Min(r.starts + 1, MaxStarts),
              !.sinceStart = 0]

\* the running animation after ms more milliseconds: a frame update
timingRun(r, ms) ==
    LET e == Min(r.elapsed + ms, Duration)
    IN  [r EXCEPT !.elapsed = e,
                  !.animValue = timingValue(r.fromValue, e),
                  !.animPhase = IF e >= Duration THEN "done" ELSE "run"]

\* the animation after ms more milliseconds: the delay timeout, and the frames
\* of the time left after it
timingTickBy(r, ms) ==
    CASE r.animPhase = "delay" ->
            IF r.delayRem - ms <= 0
            THEN timingRun([r EXCEPT !.delayRem = 0, !.animPhase = "run",
                                     !.elapsed = 0],
                           ms - r.delayRem)
            ELSE [r EXCEPT !.delayRem = r.delayRem - ms]
      [] r.animPhase = "run" -> timingRun(r, ms)
      [] OTHER -> r

\* one clock step of the animation
timingTick(r) == timingTickBy(r, TickMs)

\* ---------------------------------------------------------- animationStyle
\* mutant: the output range is written the wrong way round
interpolate_Swapped(p, inMin, inMax, outMin, outMax) ==
    outMax * PMax + ((p - inMin * PMax) * (outMin - outMax)) \div (inMax - inMin)

\* animValue.interpolate({inputRange: [inMin, inMax], outputRange: [outMin, outMax]})
\* at the value p; p and the result are in units of 1/PMax
interpolate(p, inMin, inMax, outMin, outMax) ==
    outMin * PMax + ((p - inMin * PMax) * (outMax - outMin)) \div (inMax - inMin)

\* the style the hook returns: opacity and transform[0].translateY
animationStyle(p) ==
    [opacity |-> p, translateY |-> interpolate(p, 0, 1, SlideFrom, 0)]

\* setIsVisible(true); React ignores a state update of an unmounted component
setIsVisible(r) == IF r.mounted THEN [r EXCEPT !.isVisible = TRUE] ELSE r

\* mutant: animateIn without its isVisible guard
animateIn_NoGuard(r, t) == timingStart(setIsVisible(r), delay(t))

\* animateIn, run from the closure of the installed effect
animateIn(r, t) ==
    IF r.cVisible THEN r ELSE timingStart(setIsVisible(r), delay(t))

\* mutant: a strict comparison
inView_Strict(scrollValue, y) == 10 * (scrollValue + screenHeight) > 10 * y + screenHeight

\* mutant: a negative position is never in view
inView_RejectNegative(scrollValue, y) ==
    y >= 0 /\ 10 * (scrollValue + screenHeight) >= 10 * y + screenHeight

\* visibleBottom >= layoutY + buffer, buffer = screenHeight * 0.1
inView(scrollValue, y) == 10 * (scrollValue + screenHeight) >= 10 * y + screenHeight

\* mutant: the element is hidden again when it is scrolled out
checkAndAnimate_Retrigger(r, scrollValue, t) ==
    IF r.cVisible \/ r.cLayoutY = Null THEN r
    ELSE IF inView(scrollValue, Val(r.cLayoutY)) THEN animateIn(r, t)
    ELSE [r EXCEPT !.isVisible = FALSE]

\* mutant: no null check, so a null layoutY counts as 0 in layoutY + buffer
checkAndAnimate_NoNullCheck(r, scrollValue, t) ==
    IF r.cVisible THEN r
    ELSE IF inView(scrollValue, IF r.cLayoutY = Null THEN 0 ELSE Val(r.cLayoutY))
         THEN animateIn(r, t)
    ELSE r

checkAndAnimate(r, scrollValue, t) ==
    IF r.cVisible \/ r.cLayoutY = Null THEN r
    ELSE IF inView(scrollValue, Val(r.cLayoutY)) THEN animateIn(r, t)
    ELSE r

\* mutant: the cleanup toggles the registration instead of removing it
cleanup_Toggle(r) == [r EXCEPT !.regActive = ~r.regActive, !.timerRem = 0]

\* mutant: the cleanup does not clear the timeout
cleanup_LeavesTimer(r) ==
    IF r.reg = "timer" THEN r
    ELSE [r EXCEPT !.regActive = FALSE, !.timerRem = 0,
                   !.listeners = IF r.reg = "listener" /\ r.regActive
                                 THEN @ - 1 ELSE @]

\* the effect's cleanup: observer.disconnect(), clearTimeout(t),
\* scrollY.removeListener(id); each is a no-op on a registration already gone
cleanup(r) ==
    [r EXCEPT !.regActive = FALSE, !.timerRem = 0,
              !.listeners = IF r.reg = "listener" /\ r.regActive THEN @ - 1 ELSE @,
              !.timers = IF r.reg = "timer" /\ r.regActive THEN @ - 1 ELSE @]

\* mutant: the scrollY prop is looked at before Platform.OS
runEffect_ScrollFirst(r, t, os, withScroll) ==
    IF withScroll THEN
        IF r.cVisible THEN [r EXCEPT !.reg = "none", !.regActive = FALSE]
        ELSE LET r1 == IF r.cLayoutY # Null THEN checkAndAnimate(r, 0, t) ELSE r
             IN  [r1 EXCEPT !.reg = "listener", !.regActive = TRUE,
                        !.listeners = Min(@ + 1, MaxRegs)]
    ELSE IF os = "web" THEN
        IF r.cVisible THEN [r EXCEPT !.reg = "none", !.regActive = FALSE]
        ELSE [r EXCEPT !.reg = "observer", !.regActive = TRUE]
    ELSE [r EXCEPT !.reg = "timer", !.regActive = TRUE, !.timerRem = FallbackMs,
                  !.timers = Min(@ + 1, MaxRegs)]

\* mutant: no initial check when the effect runs
runEffect_NoInitialCheck(r, t, os, withScroll) ==
    IF os = "web" THEN
        IF r.cVisible THEN [r EXCEPT !.reg = "none", !.regActive = FALSE]
        ELSE [r EXCEPT !.reg = "observer", !.regActive = TRUE]
    ELSE IF ~withScroll THEN
        [r EXCEPT !.reg = "timer", !.regActive = TRUE, !.timerRem = FallbackMs,
                  !.timers = Min(@ + 1, MaxRegs)]
    ELSE IF r.cVisible THEN [r EXCEPT !.reg = "none", !.regActive = FALSE]
    ELSE [r EXCEPT !.reg = "listener", !.regActive = TRUE,
                   !.listeners = Min(@ + 1, MaxRegs)]

\* the effect body, run with the closure (cVisible, cLayoutY) of r
runEffect(r, t, os, withScroll) ==
    IF os = "web" THEN
        IF r.cVisible THEN [r EXCEPT !.reg = "none", !.regActive = FALSE]
        ELSE [r EXCEPT !.reg = "observer", !.regActive = TRUE]
    ELSE IF ~withScroll THEN
        [r EXCEPT !.reg = "timer", !.regActive = TRUE, !.timerRem = FallbackMs,
                  !.timers = Min(@ + 1, MaxRegs)]
    ELSE IF r.cVisible THEN [r EXCEPT !.reg = "none", !.regActive = FALSE]
    ELSE LET r1 == IF r.cLayoutY # Null THEN checkAndAnimate(r, 0, t) ELSE r
         IN  [r1 EXCEPT !.reg = "listener", !.regActive = TRUE,
                        !.listeners = Min(@ + 1, MaxRegs)]

\* the hook's state at the first render
fresh ==
    [mounted |-> TRUE, isVisible |-> FALSE, layoutY |-> Null,
     cVisible |-> FALSE, cLayoutY |-> Null,
     reg |-> "none", regActive |-> FALSE, timerRem |-> 0,
     animPhase |-> "idle", delayRem |-> 0, elapsed |-> 0, fromValue |-> 0,
     animValue |-> 0,
     starts |-> 0, age |-> 0, sinceStart |-> 0, disposeCalls |-> 0,
     cleanupDue |-> FALSE, cut |-> FALSE, listeners |-> 0, timers |-> 0]

\* a render is scheduled: the state differs from what the effect captured
pendingRender(r) ==
    r.mounted /\ (r.isVisible # r.cVisible \/ r.layoutY # r.cLayoutY)

\* the form of useState at line 494, and the form handleSubmit resets to
Fields == {"name", "email", "company", "budget", "message"}
emptyForm == [f \in Fields |-> ""]

\* JavaScript !s for a string s
falsy(s) == s = ""

\* mutant: "all" is compared with the categories like any other filter
filterItems_NoAll(items, f) ==
    SelectSeq(items, LAMBDA i : i.category = f)

\* filteredPortfolio: the whole list for "all", items.filter(i => i.category
\* === f) otherwise
filterItems(items, f) ==
    IF f = "all" THEN items
    ELSE SelectSeq(items, LAMBDA i : i.category = f)

filteredPortfolio == filterItems(PORTFOLIO_ITEMS, app.portfolioFilter)

\* the slots of the portfolio grid that are rendered under filter f: the child
\* at index t - 1 exists when the filtered list has at least t items
slotsShown(f) == {t \in Targets : t <= Len(filterItems(PORTFOLIO_ITEMS, f))}

\* an Animated.Value of App with its timing animation to 1: the value, and the
\* phase, elapsed time and start value of the animation
\* Animated.timing(v, {toValue: 1, ...}).start(): from the current value
animStart(a) ==
    [a EXCEPT !.phase = "run", !.elapsed = 0, !.from = a.value]

\* the animation of duration dur after ms more milliseconds
animTick(a, ms, dur) ==
    IF a.phase # "run" THEN a
    ELSE LET e == Min(a.elapsed + ms, dur)
         IN  [a EXCEPT !.elapsed = e,
                       !.value = IF e >= dur THEN PMax
                                 ELSE a.from + easeTimes(e, dur, PMax - a.from),
                       !.phase = IF e >= dur THEN "done" ELSE "run"]

\* value.setValue(x): stops the animation on the value and sets it
animSetValue(a, x) ==
    [a EXCEPT !.value = x, !.phase = IF a.phase = "run" THEN "stopped" ELSE @]

\* mutant: the effect does not reset heroAnim
heroEffect_NoReset(a) ==
    [a EXCEPT !.hero = animStart(a.hero), !.header = animStart(a.header)]

\* the hero animation effect: heroAnim.setValue(0), then both timings start
heroEffect(a) ==
    [a EXCEPT !.hero = animStart(animSetValue(a.hero, 0)),
              !.header = animStart(a.header)]

\* mutant: next stops at the last slide
nextSlide_NoWrap(i) == Min(i + 1, SlideCount - 1)

\* (prev + 1) % HERO_SLIDES.length
nextSlide(i) == (i + 1) % SlideCount

\* mutant: previous does not wrap
prevSlide_NoWrap(i) == i - 1

\* prev === 0 ? HERO_SLIDES.length - 1 : prev - 1
prevSlide(i) == IF i = 0 THEN SlideCount - 1 ELSE i - 1

\* the index the updates queued on activeSlideIndex give, each applied to the
\* result of the one before: slideQueue holds that result while a render is
\* scheduled
latestSlide(a) ==
    IF a.slideQueue = Null THEN a.activeSlideIndex ELSE Val(a.slideQueue)

\* React renders App with the queue giving index i: nothing is committed when
\* the index is the same or App is unmounted; the effect of deps
\* [activeSlideIndex, ...] runs when the index changed
setActiveSlideIndex(a, i) ==
    IF ~a.appMounted \/ i = a.activeSlideIndex THEN [a EXCEPT !.slideQueue = Null]
    ELSE heroEffect([a EXCEPT !.activeSlideIndex = i, !.slideQueue = Null])

\* the interval callback: setActiveSlideIndex((prev) => (prev + 1) % length) is
\* queued, React renders in a later task; an update of the unmounted App is
\* ignored; the interval runs on for its next period
intervalCallback(a) ==
    [a EXCEPT !.slideQueue = IF a.appMounted
                             THEN Some(nextSlide(latestSlide(a))) ELSE @,
              !.intervalRem = AutoplayMs,
              !.sinceArm = 0]

\* the render React scheduled for the queued update
renderSlides(a) ==
    IF a.slideQueue = Null THEN a ELSE setActiveSlideIndex(a, Val(a.slideQueue))

\* the cleanup of the autoplay effect, clearInterval(interval), when React has
\* not run it yet
appFlushed(a) ==
    IF a.cleanupDue THEN [a EXCEPT !.intervalArmed = FALSE, !.cleanupDue = FALSE]
    ELSE a

\* headerHeight = responsiveValue(60, 70, 80, width)
headerHeight(device) ==
    CASE device = "mobile" -> 60
      [] device = "tablet" -> 70
      [] OTHER -> 80

\* what scrollToSection takes off the section's position: headerHeight * 0.8
\* in src/App.tsx, the fixed 80 in src/unnamed/part_000, which has no
\* headerHeight
headerOffset(file, device) ==
    IF file = "part_000" THEN 80 ELSE (headerHeight(device) * 8) \div 10

\* mutant: the header offset is taken twice
scrollTarget_TwiceOffset(positions, key, device, file) ==
    (IF positions[key] = Null THEN 0 ELSE Val(positions[key]))
        - 2 * headerOffset(file, device)

\* the y given to scrollTo: (sectionPositions[key] ?? 0) - headerHeight * 0.8,
\* and (sectionPositions[key] ?? 0) - 80 in the older copy
scrollTarget(positions, key, device, file) ==
    (IF positions[key] = Null THEN 0 ELSE Val(positions[key]))
        - headerOffset(file, device)

\* scrollToSection: scrollTo, setNavOpen(false), setOpenDropdown(null)
scrollToSectionIn(a, key) ==
    [a EXCEPT !.scrollRequest = Some(scrollTarget(a.sectionPositions, key, a.device,
                                                   a.file)),
              !.navOpen = FALSE,
              !.openDropdown = NoDropdown]

\* App's state after the first render and its effects: the autoplay interval is
\* armed and both timings have started; a desktop window, the page of
\* src/App.tsx
appInit ==
    heroEffect(
        [form |-> emptyForm, alerts |-> <<>>, portfolioFilter |-> "all",
         appMounted |-> TRUE, activeSlideIndex |-> 0, slideQueue |-> Null,
         cleanupDue |-> FALSE,
         intervalArmed |-> TRUE, intervalRem |-> AutoplayMs, sinceArm |-> 0,
         file |-> "App", device |-> "desktop", navOpen |-> FALSE, openDropdown |-> NoDropdown,
         sectionPositions |-> [k \in SectionKey |-> Null],
         scrollRequest |-> Null,
         hero |-> [value |-> 0, phase |-> "idle", elapsed |-> 0, from |-> 0],
         header |-> [value |-> 0, phase |-> "idle", elapsed |-> 0, from |-> 0]])

timerDue(r) == r.reg = "timer" /\ r.regActive /\ r.timerRem = 0

TypeOK ==
    /\ platform \in {"web", "native"}
    /\ hasScrollY \in BOOLEAN
    /\ scrollOffset \in Offsets
    /\ scrolled \in BOOLEAN
    /\ DOMAIN target = Targets
    /\ app.form \in [Fields -> FieldValues]
    /\ app.alerts \in Seq({"Missing info", "Brief sent"})
    /\ Len(app.alerts) <= MaxAlerts
    /\ app.portfolioFilter \in PortfolioCategory
    /\ app.appMounted \in BOOLEAN /\ app.intervalArmed \in BOOLEAN
    /\ app.cleanupDue \in BOOLEAN
    /\ app.slideQueue \in {Null} \cup {Some(i) : i \in 0..(SlideCount - 1)}
    /\ app.file \in Files
    /\ app.device \in Devices /\ app.navOpen \in BOOLEAN
    /\ app.openDropdown \in NavKeys \cup {NoDropdown}
    /\ DOMAIN app.sectionPositions = SectionKey
    /\ app.intervalRem \in 0..AutoplayMs
    /\ app.hero.value \in 0..PMax /\ app.header.value \in 0..PMax

\* the hooks and the scroll state after the first render and effects, with the
\* children in `live` mounted
InitHook(live) ==
    /\ platform \in {"web", "native"}
    /\ hasScrollY \in BOOLEAN
    /\ target = [t \in Targets |->
                    IF t \in live THEN runEffect(fresh, t, platform, hasScrollY)
                    ELSE [fresh EXCEPT !.mounted = FALSE]]
    /\ scrollOffset = 0
    /\ scrolled = FALSE

\* the page after its first render and effects, with the children in `live` mounted
InitWith(live) ==
    /\ InitHook(live)
    /\ app = appInit

\* one mounted child, at either index of the group
Init == \E t \in Targets : InitWith({t})

\* onLayout: setLayoutY(e.nativeEvent.layout.y)
onLayout(t, y) ==
    /\ target[t].mounted
    /\ target' = [target EXCEPT ![t].layoutY = Some(y)]
    /\ UNCHANGED <<platform, hasScrollY, scrollOffset, scrolled, app>>

\* the cleanup of an unmounted component's effect, when React has not run it yet
flushed(r) ==
    IF r.cleanupDue
    THEN [cleanup(r) EXCEPT !.cleanupDue = FALSE,
                            !.disposeCalls = Min(@ + 1, MaxDisposeCalls)]
    ELSE r

\* one render and commit of a mounted hook whose state changed: the deps
\* [scrollY, layoutY, isVisible, delay] changed, so the old effect is cleaned up
\* and the effect runs again with the new closure
rendered(r, t, os, withScroll) ==
    LET c == cleanup(r)
    IN  runEffect([c EXCEPT !.cVisible = c.isVisible, !.cLayoutY = c.layoutY],
                  t, os, withScroll)

\* React renders t again and commits: before a render React runs the passive
\* effects that are still pending
Rerender(t) ==
    /\ pendingRender(target[t])
    /\ target' = [u \in Targets |->
                    IF u = t THEN rendered(target[t], t, platform, hasScrollY)
                    ELSE flushed(target[u])]
    /\ UNCHANGED <<platform, hasScrollY, scrollOffset, scrolled, app>>

\* App.handleScroll: setScrolled(y > 100); scrollY.setValue(y) calls every listener
handleScroll(y) ==
    /\ scrollOffset' = y
    /\ scrolled' = (y > ScrolledAt)
    /\ target' = [t \in Targets |->
                    IF target[t].reg = "listener" /\ target[t].regActive
                    THEN checkAndAnimate(target[t], y, t)
                    ELSE target[t]]
    /\ UNCHANGED <<platform, hasScrollY, app>>

\* mutant: the callback does not disconnect the observer
RECURSIVE forEachEntry_NoDisconnect(_, _, _)
forEachEntry_NoDisconnect(r, entries, t) ==
    IF entries = <<>> THEN r
    ELSE forEachEntry_NoDisconnect(IF Head(entries) THEN animateIn(r, t) ELSE r,
                                   Tail(entries), t)

\* the IntersectionObserver callback on a list of entries (isIntersecting each)
RECURSIVE forEachEntry(_, _, _)
forEachEntry(r, entries, t) ==
    IF entries = <<>> THEN r
    ELSE LET r1 == IF Head(entries)
                   THEN [animateIn(r, t) EXCEPT !.regActive = FALSE]
                   ELSE r
         IN  forEachEntry(r1, Tail(entries), t)

EntryLists == UNION {[1..n -> BOOLEAN] : n \in 1..MaxEntries}

observerCallback(t, entries) ==
    /\ target[t].reg = "observer" /\ target[t].regActive
    /\ target' = [target EXCEPT ![t] = forEachEntry(target[t], entries, t)]
    /\ UNCHANGED <<platform, hasScrollY, scrollOffset, scrolled, app>>

\* the fallback's setTimeout callback: the timeout is spent, animateIn() runs
timeoutCallback(r, t) ==
    animateIn([r EXCEPT !.regActive = FALSE, !.timers = Max(0, @ - 1)], t)

\* the timeout of target t is due and its callback runs
timerFire(t) ==
    /\ timerDue(target[t])
    /\ target' = [target EXCEPT ![t] = timeoutCallback(target[t], t)]
    /\ UNCHANGED <<platform, hasScrollY, scrollOffset, scrolled, app>>

\* one target after ms during which none of its timeouts comes due (ms is at
\* most the time left on an armed timeout): the timeout counts down, the
\* animation delivers its frames; sinceStart is kept up to cap
passTime(r, t, ms, cap) ==
    LET a == timingTickBy(r, ms)
    IN  [a EXCEPT
            !.timerRem = IF r.reg = "timer" /\ r.regActive
                         THEN r.timerRem - ms ELSE r.timerRem,
            !.age = IF r.mounted /\ r.reg = "timer" /\ ~r.isVisible
                    THEN Min(r.age + ms, FallbackMs) ELSE r.age,
            !.sinceStart = IF r.mounted /\ r.starts > 0
                           THEN Min(r.sinceStart + ms, cap)
                           ELSE r.sinceStart]

\* one target after the clock advanced by ms: a timeout that comes due before
\* the end of the ms fires when it is due, React renders the state change
\* (a timeout is armed only on a native host without scrollY) and the rest of
\* the time passes after that; a timeout that comes due at the very end is
\* left due
RECURSIVE tickFor(_, _, _, _)
tickFor(r, t, ms, cap) ==
    IF r.reg = "timer" /\ r.regActive /\ r.timerRem < ms
    THEN LET f == timeoutCallback(passTime(r, t, r.timerRem, cap), t)
             c == IF pendingRender(f) THEN rendered(f, t, "native", FALSE) ELSE f
         IN  tickFor(c, t, ms - r.timerRem, cap)
    ELSE passTime(r, t, ms, cap)

tickTargetBy(r, t, ms) == tickFor(r, t, ms, delay(t) + Duration + 2 * ms)

tickTarget(r, t) == tickTargetBy(r, t, TickMs)

\* App after ms during which the interval does not come due (ms is at most
\* the time left on it): the autoplay interval counts down and heroAnim and
\* headerAnim deliver their frames. sinceArm is the time since the interval was
\* armed or since its last callback, kept up to cap
appPass(a, ms, cap) ==
    [a EXCEPT
        !.intervalRem = IF a.intervalArmed THEN @ - ms ELSE @,
        !.sinceArm = IF a.intervalArmed THEN Min(@ + ms, cap) ELSE @,
        !.hero = animTick(@, ms, HeroDuration),
        !.header = animTick(@, ms, HeaderDuration)]

\* App after the clock advanced by ms: when the interval comes due before the
\* end of the ms its callback runs when it is due, React renders the queued
\* update and the effects run, and the rest of the time passes after that; an
\* interval that comes due at the very end is left due
RECURSIVE appTickFor(_, _, _)
appTickFor(a, ms, cap) ==
    IF a.intervalArmed /\ a.intervalRem < ms
    THEN appTickFor(renderSlides(intervalCallback(appPass(a, a.intervalRem, cap))),
                    ms - a.intervalRem, cap)
    ELSE appPass(a, ms, cap)

appTick(a, ms) == appTickFor(a, ms, AutoplayMs + 2 * ms)

\* the one clock of the page advances by ms: every timeout, interval and
\* animation moves. Work that is already due runs first: scheduled renders,
\* pending effect cleanups, due timeouts and the due interval callback
TickBy(ms) ==
    /\ \A t \in Targets :
            ~pendingRender(target[t]) /\ ~timerDue(target[t]) /\ ~target[t].cleanupDue
    /\ ~(app.intervalArmed /\ app.intervalRem = 0)
    /\ app.slideQueue = Null /\ ~app.cleanupDue
    /\ target' = [t \in Targets |-> tickTargetBy(target[t], t, ms)]
    /\ app' = appTick(app, ms)
    /\ UNCHANGED <<platform, hasScrollY, scrollOffset, scrolled>>

\* the clock advances by TickMs
Tick == TickBy(TickMs)

\* unmount of the Animated.View: its animated props detach from animValue, and an
\* Animated.Value that loses its last child stops its animation; cut records
\* that the unmount stopped an animation in flight
detach(r) ==
    [r EXCEPT !.animPhase = IF r.animPhase \in {"delay", "run"}
                            THEN "stopped" ELSE r.animPhase,
              !.delayRem = 0,
              !.cut = r.animPhase \in {"delay", "run"}]

\* the hero arrows: setActiveSlideIndex with an updater, which React applies
\* after the updates already queued, and the render at the end of the press
handlePrevSlide ==
    /\ app.appMounted
    /\ app' = setActiveSlideIndex(app, prevSlide(latestSlide(app)))
    /\ UNCHANGED <<platform, hasScrollY, target, scrollOffset, scrolled>>

\* mutant: a press on next arms the autoplay interval anew
handleNextSlide_ResetsTimer ==
    /\ app.appMounted
    /\ app' = [setActiveSlideIndex(app, nextSlide(latestSlide(app))) EXCEPT
                    !.intervalRem = AutoplayMs]
    /\ UNCHANGED <<platform, hasScrollY, target, scrollOffset, scrolled>>

handleNextSlide ==
    /\ app.appMounted
    /\ app' = setActiveSlideIndex(app, nextSlide(latestSlide(app)))
    /\ UNCHANGED <<platform, hasScrollY, target, scrollOffset, scrolled>>

\* a hero dot is pressed: setActiveSlideIndex(index)
selectDot(index) ==
    /\ app.appMounted
    /\ app' = setActiveSlideIndex(app, index)
    /\ UNCHANGED <<platform, hasScrollY, target, scrollOffset, scrolled>>

\* the autoplay interval is due and its callback runs
autoAdvance ==
    /\ app.intervalArmed /\ app.intervalRem = 0
    /\ app' = intervalCallback(app)
    /\ UNCHANGED <<platform, hasScrollY, target, scrollOffset, scrolled>>

\* React renders App for the update the interval callback queued
renderApp ==
    /\ app.slideQueue # Null
    /\ app' = renderSlides(app)
    /\ UNCHANGED <<platform, hasScrollY, target, scrollOffset, scrolled>>

\* the clock advances by CarouselTickMs
carouselTick == TickBy(CarouselTickMs)

\* a ScrollAnimatedView after the commit of its unmount: the view is detached,
\* and the cleanup of its effect is left for React to run in a later task
unmounted(r) == [detach(r) EXCEPT !.mounted = FALSE, !.cleanupDue = TRUE]

\* App unmounts, and every ScrollAnimatedView in it: the commit. The animated
\* views detach from heroAnim and headerAnim, which stops them, and the queued
\* update is dropped; the cleanups of the effects, clearInterval among them,
\* are left for React to run in a later task, so the interval is still armed
unmountApp ==
    /\ app.appMounted
    /\ app' = [app EXCEPT
                    !.appMounted = FALSE,
                    !.slideQueue = Null,
                    !.cleanupDue = TRUE,
                    !.hero.phase = IF @ = "run" THEN "stopped" ELSE @,
                    !.header.phase = IF @ = "run" THEN "stopped" ELSE @]
    /\ target' = [t \in Targets |->
                    IF target[t].mounted THEN unmounted(target[t])
                    ELSE flushed(target[t])]
    /\ UNCHANGED <<platform, hasScrollY, scrollOffset, scrolled>>

\* React runs the effect cleanups the unmount of App left pending, in one
\* task: App's clearInterval first, then the cleanup of every child
flushPassiveEffects ==
    /\ app.cleanupDue
    /\ app' = appFlushed(app)
    /\ target' = [t \in Targets |-> flushed(target[t])]
    /\ UNCHANGED <<platform, hasScrollY, scrollOffset, scrolled>>

\* handleSectionLayout(key): setSectionPositions((prev) => ({...prev, [key]: y}))
handleSectionLayout(key, y) ==
    /\ app' = [app EXCEPT !.sectionPositions[key] = Some(y)]
    /\ UNCHANGED <<platform, hasScrollY, target, scrollOffset, scrolled>>

\* scrollToSection(key), from a control that is rendered: the logo, the hero
\* buttons and the CTA on every layout, the center items on tablet and
\* desktop, the mobile menu items while the menu is open
scrollToSection(key) ==
    /\ \/ key \in {"hero", "services", "contact"}
       \/ app.device # "mobile" /\ \E k \in NavKeys : centerNavItems[k].section = key
       \/ app.device = "mobile" /\ app.navOpen /\ key \in mobileNavSections
    /\ app' = scrollToSectionIn(app, key)
    /\ UNCHANGED <<platform, hasScrollY, target, scrollOffset, scrolled>>

\* a press on a child of the open dropdown: scrollToSection(child.section);
\* setOpenDropdown(null)
pressDropdownChild(key, section) ==
    /\ app.device # "mobile" /\ app.openDropdown = key
    /\ section \in centerNavItems[key].children
    /\ app' = [scrollToSectionIn(app, section) EXCEPT !.openDropdown = NoDropdown]
    /\ UNCHANGED <<platform, hasScrollY, target, scrollOffset, scrolled>>

\* onLongPress of a center item:
\* setOpenDropdown(openDropdown === item.key ? null : item.key)
longPress(key) ==
    /\ app.device # "mobile"
    /\ app' = [app EXCEPT !.openDropdown = IF @ = key THEN NoDropdown ELSE key]
    /\ UNCHANGED <<platform, hasScrollY, target, scrollOffset, scrolled>>

\* the burger, rendered on mobile: setNavOpen((prev) => !prev)
pressBurger ==
    /\ app.device = "mobile"
    /\ app' = [app EXCEPT !.navOpen = ~@]
    /\ UNCHANGED <<platform, hasScrollY, target, scrollOffset, scrolled>>

\* mutant: a slot that is rendered again gets its old hook state back
setPortfolioFilter_KeepsState(cat) ==
    /\ app' = [app EXCEPT !.portfolioFilter = cat]
    /\ target' = [t \in Targets |->
                    IF t \in slotsShown(cat)
                    THEN [target[t] EXCEPT !.mounted = TRUE]
                    ELSE IF target[t].mounted
                    THEN unmounted(target[t])
                    ELSE flushed(target[t])]
    /\ UNCHANGED <<platform, hasScrollY, scrollOffset, scrolled>>

\* a filter chip is pressed: setPortfolioFilter(cat), and the render of the grid
\* (React first runs the effect cleanups that are still pending) keeps the
\* slots (key = index) that exist before and after, unmounts the slots that
\* are gone and mounts a new ScrollAnimatedView for each new slot;
\* disposeCalls, the count of cleanups run for the slot's unmounted children,
\* is kept across the mount
setPortfolioFilter(cat) ==
    /\ app' = [app EXCEPT !.portfolioFilter = cat]
    /\ target' = [t \in Targets |->
                    IF t \in slotsShown(cat)
                    THEN IF target[t].mounted THEN target[t]
                         ELSE runEffect([fresh EXCEPT
                                            !.disposeCalls =
                                                flushed(target[t]).disposeCalls],
                                        t, platform, hasScrollY)
                    ELSE IF target[t].mounted
                    THEN unmounted(target[t])
                    ELSE flushed(target[t])]
    /\ UNCHANGED <<platform, hasScrollY, scrollOffset, scrolled>>

\* the child in the last slot
lastSlot(t) == \A u \in Targets : u > t => ~target[u].mounted

\* the parent renders the group with one child less: the commit of the
\* unmount. StaggeredScrollAnimation keys each ScrollAnimatedView by its index
\* in React.Children.toArray(children), so whichever child is left out it is
\* the last slot t that unmounts; the slots before it stay mounted with their
\* hook state. A commit comes after the effect cleanups that were still pending
unmount(t) ==
    /\ target[t].mounted
    /\ lastSlot(t)
    /\ target' = [u \in Targets |->
                    IF u = t THEN unmounted(target[t]) ELSE flushed(target[u])]
    /\ UNCHANGED <<platform, hasScrollY, scrollOffset, scrolled, app>>

\* mutant: the cleanup of one child removes every child's registration
dispose_All(t) ==
    /\ ~target[t].mounted
    /\ \/ target[t].cleanupDue
       \/ target[t].disposeCalls > 0 /\ target[t].disposeCalls < MaxDisposeCalls
    /\ target' = [u \in Targets |->
                    IF u = t
                    THEN [cleanup(target[t]) EXCEPT
                            !.cleanupDue = FALSE,
                            !.disposeCalls = Min(@ + 1, MaxDisposeCalls)]
                    ELSE cleanup(target[u])]
    /\ app' = IF target[t].cleanupDue THEN appFlushed(app) ELSE app
    /\ UNCHANGED <<platform, hasScrollY, scrollOffset, scrolled>>

\* the cleanup returned by the effect, run for the unmounted child t. React
\* runs it once, in a task after the commit of the unmount, together with
\* the other cleanups that commit left pending; a call after that one finds
\* every registration gone
dispose(t) ==
    /\ ~target[t].mounted
    /\ \/ target[t].cleanupDue
       \/ target[t].disposeCalls > 0 /\ target[t].disposeCalls < MaxDisposeCalls
    /\ target' = [u \in Targets |->
                    IF u = t
                    THEN [cleanup(target[t]) EXCEPT
                            !.cleanupDue = FALSE,
                            !.disposeCalls = Min(@ + 1, MaxDisposeCalls)]
                    ELSE IF target[t].cleanupDue THEN flushed(target[u])
                    ELSE target[u]]
    /\ app' = IF target[t].cleanupDue THEN appFlushed(app) ELSE app
    /\ UNCHANGED <<platform, hasScrollY, scrollOffset, scrolled>>

\* handleFormChange: setForm((prev) => ({ ...prev, [field]: value }))
handleFormChange(field, value) ==
    /\ app' = [app EXCEPT !.form = [app.form EXCEPT ![field] = value]]
    /\ UNCHANGED <<platform, hasScrollY, target, scrollOffset, scrolled>>

\* mutant: the name is required too
handleSubmit_NameRequired ==
    /\ Len(app.alerts) < MaxAlerts
    /\ IF falsy(app.form.name) \/ falsy(app.form.email) \/ falsy(app.form.message)
       THEN app' = [app EXCEPT !.alerts = Append(@, "Missing info")]
       ELSE app' = [app EXCEPT !.form = emptyForm,
                               !.alerts = Append(@, "Brief sent")]
    /\ UNCHANGED <<platform, hasScrollY, target, scrollOffset, scrolled>>

\* handleSubmit: the presence check, the alert, the reset
handleSubmit ==
    /\ Len(app.alerts) < MaxAlerts
    /\ IF falsy(app.form.email) \/ falsy(app.form.message)
       THEN app' = [app EXCEPT !.alerts = Append(@, "Missing info")]
       ELSE app' = [app EXCEPT !.form = emptyForm,
                               !.alerts = Append(@, "Brief sent")]
    /\ UNCHANGED <<platform, hasScrollY, target, scrollOffset, scrolled>>

\* one reveal target through the first HorizonMs of the page: the autoplay
\* interval is not due within them
Next ==
    \/ \E t \in Targets, y \in Positions : onLayout(t, y)
    \/ \E t \in Targets : Rerender(t)
    \/ \E y \in Offsets : handleScroll(y)
    \/ \E t \in Targets, entries \in EntryLists : observerCallback(t, entries)
    \/ \E t \in Targets : timerFire(t)
    \/ \E t \in Targets : unmount(t)
    \/ \E t \in Targets : dispose(t)
    \/ app.sinceArm < HorizonMs /\ Tick

Spec == Init /\ [][Next]_vars

\* one reveal target from its trigger to the end of its animation: the events
\* that trigger it, and the clock up to TimingHorizonMs
TimingNext ==
    \/ \E t \in Targets, y \in GroupPositions : onLayout(t, y)
    \/ \E t \in Targets : Rerender(t)
    \/ \E y \in GroupOffsets : handleScroll(y)
    \/ \E t \in Targets, entries \in EntryLists : observerCallback(t, entries)
    \/ \E t \in Targets : timerFire(t)
    \/ app.sinceArm < TimingHorizonMs /\ Tick

TimingSpec == Init /\ [][TimingNext]_vars

\* the first child of a group under the fallback, for as long as the page
\* lives: layout reports, renders, the timeout, the clock and the autoplay
FairInit == InitWith({1}) /\ platform = "native" /\ ~hasScrollY

FairNext ==
    \/ \E y \in FairPositions : onLayout(1, y)
    \/ Rerender(1)
    \/ timerFire(1)
    \/ autoAdvance
    \/ renderApp
    \/ TickBy(FairTickMs)

\* time keeps advancing, scheduled renders commit and due timers fire, even when
\* other events keep arriving in between (strong fairness: no amount of layout
\* events starves the clock, a render or a due timer)
FairSpec ==
    /\ FairInit /\ [][FairNext]_vars
    /\ SF_vars(TickBy(FairTickMs))
    /\ SF_vars(timerFire(1)) /\ SF_vars(Rerender(1))
    /\ SF_vars(autoAdvance) /\ SF_vars(renderApp)

\* a StaggeredScrollAnimation of two children, both mounted, on a coarser clock
GroupInit == InitWith(Targets)

GroupNext ==
    \/ \E t \in Targets, y \in GroupPositions : onLayout(t, y)
    \/ \E t \in Targets : Rerender(t)
    \/ \E y \in GroupOffsets : handleScroll(y)
    \/ \E t \in Targets, entries \in EntryLists : observerCallback(t, entries)
    \/ \E t \in Targets : timerFire(t)
    \/ \E t \in Targets : unmount(t)
    \/ \E t \in Targets : dispose(t)
    \/ app.sinceArm < GroupHorizonMs /\ TickBy(GroupTickMs)

GroupSpec == GroupInit /\ [][GroupNext]_vars

\* the portfolio grid: the staggered group under the filter chips; the grid is
\* always given scrollY
PortfolioInit == InitWith(Targets) /\ hasScrollY

PortfolioNext ==
    \/ \E cat \in PortfolioCategory : setPortfolioFilter(cat)
    \/ \E t \in Targets, y \in GroupPositions : onLayout(t, y)
    \/ \E t \in Targets : Rerender(t)
    \/ \E y \in GroupOffsets : handleScroll(y)
    \/ \E t \in Targets, entries \in EntryLists : observerCallback(t, entries)
    \/ \E t \in Targets : dispose(t)
    \/ app.sinceArm < PortfolioHorizonMs /\ TickBy(PortfolioTickMs)

PortfolioSpec == PortfolioInit /\ [][PortfolioNext]_vars

\* the hero carousel: arrows, dots, autoplay, the clock and the unmount of the
\* page; its reveal targets are given scrollY, as everywhere in App, and wait
\* for a scroll or an observer event
CarouselInit == Init /\ hasScrollY

CarouselNext ==
    \/ handlePrevSlide
    \/ handleNextSlide
    \/ \E index \in 0..(SlideCount - 1) : selectDot(index)
    \/ autoAdvance
    \/ renderApp
    \/ carouselTick
    \/ unmountApp
    \/ flushPassiveEffects

CarouselSpec == CarouselInit /\ [][CarouselNext]_vars

\* the navigation alone, on each of the three layouts, of either copy of the
\* page
NavInit ==
    /\ InitHook({1})
    /\ \E d \in Devices, f \in Files :
            app = [appInit EXCEPT !.device = d, !.file = f]

NavNext ==
    \/ \E key \in SectionKey, y \in SectionYs : handleSectionLayout(key, y)
    \/ \E key \in SectionKey : scrollToSection(key)
    \/ \E key \in NavKeys, section \in SectionKey : pressDropdownChild(key, section)
    \/ \E key \in NavKeys : longPress(key)
    \/ pressBurger

NavSpec == NavInit /\ [][NavNext]_vars

\* the contact form alone: typing into the fields and pressing the button
FormNext ==
    \/ \E field \in Fields, value \in FieldValues : handleFormChange(field, value)
    \/ handleSubmit

FormSpec == Init /\ [][FormNext]_vars

\* ------------------------------------------------------------------ claims
\* the strategy the effect selects (lines 256, 281, 288)
scrollStrategy == platform = "native" /\ hasScrollY
fallbackStrategy == platform = "native" /\ ~hasScrollY

\* C1: isVisible of a target, once true, is never set back to false by any
\* scroll, layout, observer, timer, render, unmount or cleanup step; so it changes
\* from false to true at most once.
C1_VisibleLatched ==
    [][\A t \in Targets : target[t].isVisible => target'[t].isVisible]_vars

\* C1 witness: a visible scroll-strategy target at position 1000 after the page
\* was scrolled back to offset 0, where it is out of view again
C1_Witness ==
    \E t \in Targets :
        /\ scrollStrategy /\ target[t].mounted
        /\ target[t].isVisible /\ target[t].cVisible
        /\ target[t].layoutY = Some(1000) /\ scrollOffset = 0

\* C2 (as claimed): Animated.timing is started at most once per target.
C2_StartedOnce == \A t \in Targets : target[t].starts <= 1

\* C3: a scroll update to offset s delivered to the listener of a mounted,
\* not-yet-visible target whose committed position is y triggers it if and only if
\* s + H >= y + 0.1 * H; with H = 800 and y = 1000 that is exactly s >= 280.
C3_ScrollThreshold ==
    /\ \A s \in 0..400 : inView(s, 1000) <=> s >= 280
    /\ [][\A s \in Offsets : handleScroll(s) =>
            \A t \in Targets :
                ( /\ target[t].mounted
                  /\ target[t].reg = "listener" /\ target[t].regActive
                  /\ ~target[t].isVisible /\ target[t].cLayoutY # Null )
                => ( (target'[t].isVisible /\ target'[t].starts = 1)
                     <=> 10 * (s + screenHeight)
                            >= 10 * Val(target[t].cLayoutY) + screenHeight )
       ]_vars

\* C3 witness: the target at position 1000 has just been triggered by the scroll
\* update to offset 280
C3_Witness ==
    \E t \in Targets :
        /\ scrollStrategy /\ target[t].mounted
        /\ target[t].cLayoutY = Some(1000) /\ scrollOffset = 280
        /\ target[t].isVisible /\ ~target[t].cVisible /\ target[t].starts = 1

\* C4: under the scroll-offset strategy a scroll update leaves a target whose
\* layoutY is still null entirely unchanged, and a visible target has a
\* measured position.
C4_NullNeverTriggers ==
    /\ [](\A t \in Targets :
            (scrollStrategy /\ target[t].isVisible) => target[t].layoutY # Null)
    /\ [][\A s \in Offsets : handleScroll(s) =>
            \A t \in Targets :
                (scrollStrategy /\ target[t].layoutY = Null)
                => target'[t] = target[t]
       ]_vars

\* C4 witness: an unmeasured, still hidden target with its listener registered
\* after the page was scrolled to offset 280
C4_Witness ==
    \E t \in Targets :
        /\ scrollStrategy /\ target[t].mounted
        /\ target[t].reg = "listener" /\ target[t].regActive
        /\ target[t].layoutY = Null /\ ~target[t].isVisible
        /\ scrollOffset = 280

\* C5 (as claimed): an unmounted target holds no active listener, timer or
\* observer, and no later step makes it visible or starts its animation.
C5_NoTriggerAfterDispose ==
    /\ [](\A t \in Targets : ~target[t].mounted => ~target[t].regActive)
    /\ [][\A t \in Targets :
            ~target[t].mounted =>
                /\ target'[t].isVisible = target[t].isVisible
                /\ target'[t].starts = target[t].starts
       ]_vars

\* C6 (as claimed): the animValue of a target that was unmounted during its
\* start delay or its animation never changes again.
C6_DisposeHaltsAnimation ==
    [][\A t \in Targets :
            (~target[t].mounted /\ target[t].cut)
                => target'[t].animValue = target[t].animValue
      ]_vars

\* C7: a run of the effect cleanup for an unmounted target whose cleanup has
\* already run changes nothing but the count of cleanup runs.
C7_DisposeIdempotent ==
    [][\A t \in Targets :
            (~target[t].cleanupDue /\ dispose(t)) =>
                target' = [target EXCEPT ![t].disposeCalls = target[t].disposeCalls + 1]
      ]_vars

\* C7 witness: an unmounted target whose cleanup has run twice
C7_Witness ==
    \E t \in Targets :
        ~target[t].mounted /\ ~target[t].cleanupDue /\ target[t].disposeCalls >= 2

\* C8: under the no-signal fallback the animation is started at most once, a
\* visible target is at least 80 ms old, and a scroll update changes nothing
\* of the target.
C8_FallbackOnce ==
    /\ [](\A t \in Targets :
            fallbackStrategy =>
                /\ target[t].starts <= 1
                /\ target[t].isVisible => target[t].age >= FallbackMs)
    /\ [][\A s \in Offsets : handleScroll(s) =>
            (fallbackStrategy => target' = target)
       ]_vars

\* C8 witness: a fallback target, never scrolled, on which the timer that was
\* armed after it became visible has fired too
C8_Witness ==
    \E t \in Targets :
        /\ fallbackStrategy /\ target[t].mounted
        /\ target[t].isVisible /\ target[t].cVisible
        /\ target[t].reg = "timer" /\ ~target[t].regActive
        /\ target[t].starts = 1 /\ scrollOffset = 0

\* C9 (as claimed): under the no-signal fallback a target that stays mounted
\* eventually becomes visible.
C9_EventuallyVisible ==
    \A t \in Targets :
        <>(~fallbackStrategy \/ ~target[t].mounted \/ target[t].isVisible)

\* C10: for a mounted, triggered target animValue is 0 until delay ms after the
\* start, never decreases, is below 1 until delay + 800 ms, is exactly 1 from
\* delay + 800 ms on (within two clock steps) and then stays 1; while the
\* animation runs it is the ease-out cubic of the elapsed time, to the
\* thousandth.
C10_ProgressSchedule ==
    /\ [](\A t \in Targets :
            (target[t].mounted /\ target[t].starts > 0) =>
                /\ target[t].sinceStart < delay(t) => target[t].animValue = 0
                /\ target[t].animValue = PMax
                      => target[t].sinceStart >= delay(t) + Duration
                /\ target[t].sinceStart >= delay(t) + Duration + 2 * TickMs
                      => target[t].animValue = PMax
                /\ (target[t].animPhase = "run" /\ target[t].fromValue = 0)
                      => PMax * easeOutCubic(target[t].elapsed)
                            - 1000000 * target[t].animValue
                                \in (0 - PMax)..(1000000 + PMax))
    /\ [][\A t \in Targets :
            (target[t].mounted /\ target'[t].mounted) =>
                /\ target'[t].animValue >= target[t].animValue
                /\ target[t].animValue = PMax => target'[t].animValue = PMax
       ]_vars

\* C10 witness: a mounted target with a delay whose animation has completed
C10_Witness ==
    \E t \in Targets :
        /\ target[t].mounted /\ delay(t) > 0
        /\ target[t].animPhase = "done" /\ target[t].animValue = PMax
        /\ target[t].sinceStart >= delay(t) + Duration

\* the values animValue takes during an undisturbed animation from 0
ProgressSamples == {timingValue(0, k * TickMs) : k \in 0..(Duration \div TickMs + 1)}

\* C11 (as claimed): animValue above 0 implies isVisible, and a scroll update delivered to a
\* target that is already visible changes neither its animValue nor the
\* schedule of its animation.
C11_ScrollGatesStartOnly ==
    /\ [](\A t \in Targets : target[t].animValue > 0 => target[t].isVisible)
    /\ [][\A s \in Offsets : handleScroll(s) =>
            \A t \in Targets :
                target[t].isVisible =>
                    /\ target'[t].animValue = target[t].animValue
                    /\ target'[t].animPhase = target[t].animPhase
                    /\ target'[t].delayRem = target[t].delayRem
                    /\ target'[t].elapsed = target[t].elapsed
                    /\ target'[t].fromValue = target[t].fromValue
                    /\ target'[t].sinceStart = target[t].sinceStart
       ]_vars

\* C12: the style of a target has opacity = animValue and translateY =
\* 60 * (1 - animValue): 0 and 60 at animValue 0, 1 and 0 at animValue 1, and
\* against every other progress value q opacity is monotone and translateY
\* antitone.
C12_StyleOfProgress ==
    /\ animationStyle(0) = [opacity |-> 0, translateY |-> 60 * PMax]
    /\ animationStyle(PMax) = [opacity |-> PMax, translateY |-> 0]
    /\ \A t \in Targets :
        LET p == target[t].animValue
            st == animationStyle(p)
        IN  /\ st.opacity = p
            /\ st.translateY = 60 * (PMax - p)
            /\ \A q \in ProgressSamples :
                 q <= p => /\ animationStyle(q).opacity <= st.opacity
                           /\ animationStyle(q).translateY >= st.translateY

\* C12 witness: a mounted target part of the way through its animation
C12_Witness ==
    \E t \in Targets :
        /\ target[t].mounted /\ target[t].animPhase = "run"
        /\ target[t].animValue > 0 /\ target[t].animValue < PMax
        /\ animationStyle(target[t].animValue).translateY > 0
        /\ animationStyle(target[t].animValue).translateY < 60 * PMax

webStrategy == platform = "web"

\* C15: on web the observer callback that first reports an intersecting entry
\* of a mounted target makes the target visible and disconnects the observer; a visible target has
\* no connected observer, and no later step starts its animation again.
C15_ObserverOneShot ==
    /\ [](\A t \in Targets :
            (webStrategy /\ target[t].isVisible) => ~target[t].regActive)
    /\ [][\A t \in Targets :
            /\ \A entries \in EntryLists :
                ( /\ webStrategy /\ target[t].mounted
                  /\ observerCallback(t, entries)
                  /\ \E i \in DOMAIN entries : entries[i] )
                => (target'[t].isVisible /\ ~target'[t].regActive)
            /\ (webStrategy /\ target[t].isVisible)
                => target'[t].starts = target[t].starts
       ]_vars

\* C15 witness: a visible web target whose re-render has run: it installed no
\* observer
C15_Witness ==
    \E t \in Targets :
        /\ webStrategy /\ target[t].mounted
        /\ target[t].isVisible /\ target[t].cVisible
        /\ target[t].reg = "none" /\ target[t].starts >= 1

\* C16: the registration of a target is fixed by the host: an observer on web
\* whether or not scrollY is supplied, a scroll listener on native with
\* scrollY, the 80 ms timer on native without; on web a scroll update changes
\* no target and a target becomes visible only through its connected observer.
C16_StrategyByHost ==
    /\ [](\A t \in Targets :
            (target[t].mounted \/ target[t].cleanupDue \/ target[t].disposeCalls > 0) =>
                /\ webStrategy => target[t].reg \in {"observer", "none"}
                /\ scrollStrategy => target[t].reg \in {"listener", "none"}
                /\ fallbackStrategy => target[t].reg = "timer")
    /\ [][/\ \A s \in Offsets :
                (webStrategy /\ handleScroll(s)) => target' = target
          /\ \A t \in Targets :
                (webStrategy /\ ~target[t].isVisible /\ target'[t].isVisible)
                => (target[t].reg = "observer" /\ target[t].regActive)
       ]_vars

\* C16 witness: on web with scrollY supplied, a target at position 1000 is still
\* hidden and observed with the page at offset 280
C16_Witness ==
    \E t \in Targets :
        /\ webStrategy /\ hasScrollY /\ target[t].mounted
        /\ target[t].cLayoutY = Some(1000) /\ scrollOffset = 280
        /\ ~target[t].isVisible /\ target[t].reg = "observer" /\ target[t].regActive

\* C17 (as claimed): no step makes a hidden scroll-strategy target with a
\* negative measured position visible.
C17_NegativeNeverTriggers ==
    [][\A t \in Targets :
            ( /\ scrollStrategy /\ ~target[t].isVisible
              /\ target[t].layoutY # Null /\ Val(target[t].layoutY) < 0 )
            => ~target'[t].isVisible
      ]_vars

\* C17 (amended): for a negative position the comparison is true at every
\* scroll offset, so a scroll-strategy target whose committed position is
\* negative has been triggered.
C17_NegativeTriggersAtOnce ==
    /\ \A y \in (0 - 200)..(0 - 1), s \in Offsets : inView(s, y)
    /\ \A t \in Targets :
        ( /\ scrollStrategy /\ target[t].mounted
          /\ target[t].cLayoutY # Null /\ Val(target[t].cLayoutY) < 0 )
        => target[t].isVisible

\* C17 witness: a target triggered at the negative position -100
C17_Witness ==
    \E t \in Targets :
        /\ scrollStrategy /\ target[t].mounted
        /\ target[t].cLayoutY = Some(0 - 100)
        /\ target[t].isVisible /\ target[t].starts = 1

\* C18: under the scroll-offset strategy the render that commits a position y
\* with y + 0.1 * H <= H triggers the target in its initial check against
\* offset 0, in that step and with no scroll update.
C18_InitialCheck ==
    /\ [](\A t \in Targets :
            ( /\ scrollStrategy /\ target[t].mounted /\ target[t].cLayoutY # Null
              /\ 10 * Val(target[t].cLayoutY) + screenHeight <= 10 * screenHeight )
            => target[t].isVisible)
    /\ [][\A t \in Targets :
            ( /\ Rerender(t) /\ scrollStrategy /\ ~target[t].isVisible
              /\ target[t].layoutY # Null
              /\ 10 * Val(target[t].layoutY) + screenHeight <= 10 * screenHeight )
            => ( /\ target'[t].isVisible /\ target'[t].starts = 1
                 /\ scrollOffset' = scrollOffset )
       ]_vars

\* C18 witness: a target at position 500 is visible while the page is at offset 0
\* and the scrolled flag is still false
C18_Witness ==
    \E t \in Targets :
        /\ scrollStrategy /\ target[t].mounted
        /\ target[t].cLayoutY = Some(500) /\ target[t].isVisible
        /\ target[t].starts = 1 /\ scrollOffset = 0 /\ ~scrolled

\* C19 (as claimed): a layout report delivered to a hidden scroll-strategy target
\* that is in view at the current scroll offset triggers it.
C19_LayoutUsesCurrentOffset ==
    [][\A t \in Targets :
            ( /\ Rerender(t) /\ scrollStrategy /\ ~target[t].isVisible
              /\ target[t].layoutY # Null
              /\ 10 * (scrollOffset + screenHeight)
                    >= 10 * Val(target[t].layoutY) + screenHeight )
            => target'[t].isVisible
      ]_vars

\* C20: a submit with email or message empty records the "Missing info" alert
\* and leaves the five fields as they are; any other submit, whatever name,
\* company and budget hold, records "Brief sent" and sets all five fields to "".
C20_SubmitPresenceCheck ==
    [][Len(app'.alerts) > Len(app.alerts) =>
        IF app.form.email = "" \/ app.form.message = ""
        THEN /\ app'.alerts = Append(app.alerts, "Missing info")
             /\ app'.form = app.form
        ELSE /\ app'.alerts = Append(app.alerts, "Brief sent")
             /\ \A f \in Fields : app'.form[f] = ""
      ]_vars

\* C20 witness: a form with only email and message filled in was sent after a
\* refused submit, and is empty again
C20_Witness ==
    /\ app.alerts = <<"Missing info", "Brief sent">>
    /\ app.form = emptyForm

\* the itemDelay values the page passes to StaggeredScrollAnimation
ItemDelays == {100, 120, 150}

\* C13: the child at index i gets the delay i * itemDelay (0, 100, 200 for three
\* children and itemDelay 100), and that is the delay its animation starts with
\* in every state of the group, whatever its sibling's state is.
C13_StaggerDelays ==
    /\ \A i \in 0..2, d \in ItemDelays : staggerDelay(i, d) = i * d
    /\ <<delay(1), delay(2), delay(3)>> = <<0, 100, 200>>
    /\ \A t \in Targets :
        ( /\ target[t].mounted /\ target[t].starts > 0
          /\ target[t].sinceStart = 0 )
        => /\ target[t].delayRem = (t - 1) * 100
           /\ target[t].animPhase = IF t = 1 THEN "run" ELSE "delay"

\* C13 witness: the second child has just started with 100 ms of delay while
\* the first child is mounted and still hidden
C13_Witness ==
    /\ target[1].mounted /\ ~target[1].isVisible /\ target[1].starts = 0
    /\ target[2].mounted /\ target[2].isVisible
    /\ target[2].starts = 1 /\ target[2].sinceStart = 0
    /\ target[2].delayRem = 100

\* C14: a step that changes another target than t, the scroll offset or the
\* scrolled flag is no layout report, observer callback, timer firing or
\* cleanup of t; a render or an unmount of t does to another target nothing
\* but run that target's own pending cleanup; a scroll update changes only
\* targets whose own listener is connected; the scroll offset changes in scroll
\* updates only.
C14_TargetsIndependent ==
    [][/\ \A t \in Targets :
            ( \/ \E u \in Targets \ {t} : target'[u] # target[u]
              \/ scrollOffset' # scrollOffset
              \/ scrolled' # scrolled )
            => ~( \/ \E y \in GroupPositions : onLayout(t, y)
                  \/ \E entries \in EntryLists : observerCallback(t, entries)
                  \/ timerFire(t)
                  \/ dispose(t) )
       /\ \A t \in Targets :
            ( \/ \E u \in Targets \ {t} : target'[u] # flushed(target[u])
              \/ scrollOffset' # scrollOffset
              \/ scrolled' # scrolled )
            => ~(Rerender(t) \/ unmount(t))
       /\ \A u \in Targets :
            ( /\ target'[u] # target[u]
              /\ ~(target[u].reg = "listener" /\ target[u].regActive) )
            => ~(\E s \in GroupOffsets : handleScroll(s))
       /\ scrollOffset' # scrollOffset => \E s \in GroupOffsets : handleScroll(s)
      ]_vars

\* C14 witness: the second child was triggered, unmounted in the middle of its
\* animation and cleaned up, while the first, mounted and measured, is still
\* hidden
C14_Witness ==
    /\ ~target[2].mounted /\ target[2].isVisible /\ target[2].animPhase = "stopped"
    /\ ~target[2].cleanupDue /\ target[2].disposeCalls = 1
    /\ target[1].mounted /\ ~target[1].isVisible
    /\ target[1].cLayoutY = Some(1000) /\ target[1].regActive
    /\ target[1].starts = 0 /\ target[1].animValue = 0

\* the listeners registered on the shared scrollY, one pair per registration
scrollListeners ==
    {p \in Targets \X (1..MaxRegs) : p[2] <= target[p[1]].listeners}

\* C22 (as claimed): each target holds at most one listener on scrollY, only a mounted
\* scroll-strategy target holds one, a visible target whose effect has re-run
\* holds none, and the listeners are no more than the mounted targets that are
\* hidden or have a render pending.
C22_ListenerBound ==
    /\ \A t \in Targets :
        /\ target[t].listeners <= 1
        /\ target[t].listeners > 0 => (target[t].mounted /\ scrollStrategy)
        /\ (target[t].isVisible /\ target[t].cVisible) => target[t].listeners = 0
    /\ Cardinality(scrollListeners) <=
          Cardinality({t \in Targets :
                          /\ target[t].mounted
                          /\ ~target[t].isVisible \/ pendingRender(target[t])})

\* C23: under the no-signal fallback a target has at most one timer pending; the
\* render that commits a changed position leaves exactly one timer pending with
\* the full 80 ms to run; and the target becomes visible only through a timer
\* whose 80 ms have run out: in the step of its callback, or in the clock step
\* inside which it came due, the animation then being as old as the rest of
\* that step.
C23_FallbackRearm ==
    /\ [](\A t \in Targets :
            /\ target[t].timers <= 1
            /\ target[t].timers > 0 => fallbackStrategy)
    /\ [][\A t \in Targets :
            /\ ( /\ fallbackStrategy /\ target[t].layoutY # target[t].cLayoutY
                 /\ Rerender(t) )
               => /\ target'[t].timers = 1
                  /\ target'[t].regActive
                  /\ target'[t].timerRem = FallbackMs
            /\ (fallbackStrategy /\ ~target[t].isVisible /\ target'[t].isVisible)
               => /\ target[t].timers = 1 /\ target[t].regActive
                  /\ \/ timerDue(target[t])
                     \/ /\ Tick /\ target[t].timerRem < TickMs
                        /\ target'[t].sinceStart = TickMs - target[t].timerRem
       ]_vars

\* C23 witness: 80 ms after its registration a fallback target is still hidden,
\* with a re-armed timer that has time left to run
C23_Witness ==
    \E t \in Targets :
        /\ fallbackStrategy /\ target[t].mounted /\ ~target[t].isVisible
        /\ target[t].age >= FallbackMs
        /\ target[t].timers = 1 /\ target[t].regActive
        /\ target[t].timerRem > 0 /\ target[t].timerRem < FallbackMs

\* the lists of items the filter predicate is checked on: every list of up to
\* MaxItems items over the three categories
ItemLists ==
    UNION {{[i \in 1..n |-> [id |-> i, category |-> cs[i]]] :
                cs \in [1..n -> PortfolioCategory \ {"all"}]} : n \in 0..MaxItems}

\* res holds exactly the items of category c, in the order they have in items
keptInOrder(items, c, res) ==
    LET P == {i \in DOMAIN items : items[i].category = c}
    IN  /\ Len(res) = Cardinality(P)
        /\ \A k \in 1..Len(res) :
              res[k] = items[CHOOSE i \in P : Cardinality({j \in P : j < i}) = k - 1]

\* C21: the filter "all" yields the list itself and a category c yields exactly
\* the items of category c in their original order, for the static list under
\* the current filter and for every short list; pressing a filter chip changes
\* no other state of App, not the scroll state and no slot that stays rendered.
C21_FilterPredicate ==
    /\ [](/\ \A items \in ItemLists :
                /\ filterItems(items, "all") = items
                /\ \A c \in PortfolioCategory \ {"all"} :
                      keptInOrder(items, c, filterItems(items, c))
          /\ IF app.portfolioFilter = "all"
             THEN filteredPortfolio = PORTFOLIO_ITEMS
             ELSE keptInOrder(PORTFOLIO_ITEMS, app.portfolioFilter, filteredPortfolio))
    /\ [][\A cat \in PortfolioCategory : setPortfolioFilter(cat) =>
            /\ app' = [app EXCEPT !.portfolioFilter = cat]
            /\ scrollOffset' = scrollOffset /\ scrolled' = scrolled
            /\ \A t \in slotsShown(cat) : target[t].mounted => target'[t] = target[t]
       ]_vars

\* C21 witness: under the filter "mobile" the list is the second item alone
C21_Witness ==
    /\ app.portfolioFilter = "mobile"
    /\ filteredPortfolio = <<PORTFOLIO_ITEMS[2]>>
    /\ target[1].mounted /\ ~target[2].mounted

\* C24: a press on a filter chip leaves the slot at index 0 as it is, and a slot
\* it mounts starts hidden, with progress 0, no position and no animation
\* started, whatever the slot held when it was unmounted.
C24_SlotState ==
    [][\A cat \in PortfolioCategory : setPortfolioFilter(cat) =>
        /\ target'[1] = target[1]
        /\ \A t \in Targets :
            (~target[t].mounted /\ target'[t].mounted) =>
                /\ ~target'[t].isVisible /\ target'[t].animValue = 0
                /\ target'[t].layoutY = Null /\ target'[t].starts = 0
                /\ target'[t].animPhase = "idle"
      ]_vars

\* C24 witness: back under "all", the first slot is still revealed, part of the
\* way through its animation, and the second slot, unmounted once, is mounted,
\* hidden and unmeasured
C24_Witness ==
    /\ app.portfolioFilter = "all"
    /\ target[1].mounted /\ target[1].isVisible
    /\ target[1].animValue > 0 /\ target[1].animValue < PMax
    /\ target[2].mounted /\ target[2].disposeCalls >= 1
    /\ ~target[2].isVisible /\ target[2].animValue = 0 /\ target[2].layoutY = Null

\* C25: the slide index is always one of 0..2, and so is the index the queued
\* updates give; applied to that index (the shown index when nothing is queued)
\* next and the autoplay callback give the following slide and 0 after 2,
\* previous gives the preceding slide and 2 after 0, and a dot gives the index
\* of the dot; the render of the queued update shows the index it gave.
C25_SlideIndexValid ==
    /\ [](app.activeSlideIndex \in 0..2 /\ latestSlide(app) \in 0..2)
    /\ [][LET i == latestSlide(app)
              j == app'.activeSlideIndex
          IN  /\ handleNextSlide => j = IF i = 2 THEN 0 ELSE i + 1
              /\ (autoAdvance /\ app.appMounted) =>
                    latestSlide(app') = IF i = 2 THEN 0 ELSE i + 1
              /\ renderApp => j = i
              /\ handlePrevSlide => j = IF i = 0 THEN 2 ELSE i - 1
              /\ \A index \in 0..2 : selectDot(index) => j = index
       ]_vars

\* C25 witness: the autoplay callback has just moved the carousel from slide 2
\* to slide 0
C25_Witness ==
    /\ app.appMounted /\ app.activeSlideIndex = 0
    /\ app.sinceArm = 0 /\ app.header.value = PMax
    /\ app.hero.value = 0 /\ app.hero.phase = "run"

\* C26: on every slide index previous undoes next, next undoes previous and
\* three times next is the identity; a press on next leads to the index that
\* previous takes back to the index it was applied to, and the other way round.
C26_NextPrevInverse ==
    /\ [](\A i \in 0..(SlideCount - 1) :
            /\ prevSlide(nextSlide(i)) = i
            /\ nextSlide(prevSlide(i)) = i
            /\ nextSlide(nextSlide(nextSlide(i))) = i)
    /\ [][/\ handleNextSlide => prevSlide(app'.activeSlideIndex) = latestSlide(app)
          /\ handlePrevSlide => nextSlide(app'.activeSlideIndex) = latestSlide(app)
       ]_vars

\* C26 witness: slide 2 shown before any time has passed since mount: previous
\* was pressed on slide 0
C26_Witness ==
    /\ app.appMounted /\ app.activeSlideIndex = 2
    /\ app.sinceArm = 0 /\ app.header.value = 0

\* C27: the interval is armed from mount until the cleanup that follows the
\* unmount; its remaining time is 8000 ms minus the time since mount or since
\* its last callback, and a press on an arrow or a dot leaves it as it is; its
\* callback runs no earlier than 8000 ms after the previous one and queues the
\* following slide; the cleanup clears it, and after unmount the index does not
\* change.
C27_AutoplaySchedule ==
    /\ [](/\ app.intervalArmed <=> (app.appMounted \/ app.cleanupDue)
          /\ app.intervalArmed =>
                app.intervalRem = Max(0, AutoplayMs - app.sinceArm))
    /\ [][/\ autoAdvance =>
                /\ app.sinceArm >= AutoplayMs
                /\ app.appMounted =>
                        latestSlide(app') = (latestSlide(app) + 1) % 3
          /\ ~app.appMounted => app'.activeSlideIndex = app.activeSlideIndex
          /\ flushPassiveEffects => ~app'.intervalArmed
          /\ ( \/ handleNextSlide \/ handlePrevSlide
               \/ \E index \in 0..2 : selectDot(index) )
                => /\ app'.intervalArmed = app.intervalArmed
                   /\ app'.intervalRem = app.intervalRem
                   /\ app'.sinceArm = app.sinceArm
       ]_vars

\* C27 witness: an arrow or a dot was pressed 4000 ms into the period, and the
\* interval still has 4000 ms to run
C27_Witness ==
    /\ app.appMounted /\ app.activeSlideIndex # 0
    /\ app.hero.phase = "run" /\ app.hero.elapsed = 0
    /\ app.sinceArm = 10 * CarouselTickMs
    /\ app.intervalRem = AutoplayMs - 10 * CarouselTickMs

\* C28: a step that changes the slide index leaves heroAnim running anew from
\* 0 (at 0, or, when the clock ran on in the step, as far as the time since the
\* change took it); a step that keeps the index neither lowers heroAnim nor
\* restarts its animation; headerAnim never decreases.
C28_HeroRestart ==
    [][/\ app'.activeSlideIndex # app.activeSlideIndex =>
            /\ app'.hero.phase = "run" /\ app'.hero.from = 0
            /\ app'.hero.value = easeTimes(app'.hero.elapsed, HeroDuration, PMax)
            /\ \/ app'.hero.elapsed = 0
               \/ carouselTick /\ app'.hero.elapsed < CarouselTickMs
       /\ app'.activeSlideIndex = app.activeSlideIndex =>
            /\ app'.hero.value >= app.hero.value
            /\ app'.hero.elapsed >= app.hero.elapsed
       /\ app'.header.value >= app.header.value
      ]_vars

\* C28 witness: on a later slide heroAnim is back at 0 and running while
\* headerAnim has stayed at 1
C28_Witness ==
    /\ app.appMounted /\ app.activeSlideIndex = 1
    /\ app.hero.value = 0 /\ app.hero.phase = "run" /\ app.hero.elapsed = 0
    /\ app.header.value = PMax

\* the position scrollToSection looks up: the measured one, or 0
measuredOrZero(key) ==
    IF app.sectionPositions[key] = Null THEN 0 ELSE Val(app.sectionPositions[key])

\* C29 (as claimed): a long press opens the item's dropdown alone or closes it
\* when it is the open one, the burger toggles the mobile menu, and
\* scrollToSection closes the menu and the dropdown and scrolls to the section's
\* measured position, or to 0 for a section never measured.
C29_NavAsClaimed ==
    [][/\ \A key \in NavKeys : longPress(key) =>
            app'.openDropdown = IF app.openDropdown = key THEN NoDropdown ELSE key
       /\ pressBurger => app'.navOpen = ~app.navOpen
       /\ \A key \in SectionKey : scrollToSection(key) =>
            /\ ~app'.navOpen /\ app'.openDropdown = NoDropdown
            /\ app'.scrollRequest = Some(measuredOrZero(key))
      ]_vars

\* C29 (amended): as above, but scrollToSection scrolls to the section's
\* measured position, or 0 for a section never measured, minus the header
\* offset: 0.8 times the header height in src/App.tsx (48, 56 or 64 on the
\* mobile, tablet and desktop layout), 80 on every layout in
\* src/unnamed/part_000; at most one dropdown is open in every state.
C29_NavState ==
    /\ [](Cardinality({k \in NavKeys : app.openDropdown = k}) <= 1)
    /\ [][/\ \A key \in NavKeys : longPress(key) =>
                app'.openDropdown = IF app.openDropdown = key THEN NoDropdown ELSE key
          /\ pressBurger => app'.navOpen = ~app.navOpen
          /\ \A key \in SectionKey : scrollToSection(key) =>
                /\ ~app'.navOpen /\ app'.openDropdown = NoDropdown
                /\ app'.scrollRequest =
                      Some(measuredOrZero(key)
                           - (IF app.file = "part_000" THEN 80
                              ELSE IF app.device = "mobile" THEN 48
                              ELSE IF app.device = "tablet" THEN 56 ELSE 64))
       ]_vars

\* C29 witness: on the tablet layout of the older copy the page was asked to
\* scroll to the work section, measured at 900, and no menu or dropdown is open
C29_Witness ==
    /\ app.file = "part_000" /\ app.device = "tablet"
    /\ app.sectionPositions["work"] = Some(900)
    /\ app.sectionPositions["hero"] = Some(0)
    /\ app.scrollRequest = Some(900 - 80)
    /\ ~app.navOpen /\ app.openDropdown = NoDropdown
====
